---- MODULE Spec2Model ----
(***************************************************************************)
(* JuMake: the build / run command pipeline (src/src/main.rs,              *)
(* src/src/build.rs), the element-addition pipeline                        *)
(* (src/src/create_files.rs) and the project-creation pipeline             *)
(* (src/src/create_project.rs, src/src/initialize_git.rs), as state        *)
(* machines over the project directory's files.                            *)
(*                                                                         *)
(* One command runs at a time (the program is single-threaded and every    *)
(* external tool is a blocking foreground call); the user's own edits of   *)
(* the project directory happen between commands.                          *)
(***************************************************************************)
EXTENDS Integers, Sequences, FiniteSets, TLC

VARIABLES
    os,             \* target_os the binary was compiled for
    buildDir,       \* jumake_build/ exists
    cache,          \* jumake_build/CMakeCache.txt exists
    ccjson,         \* jumake_build/compile_commands.json exists
    jumake,         \* the marker file .jumake: [st, txt]
    pc,             \* position of the running command ("idle": none running)
    cmd,            \* the command running or last run: "none", "build", "run"
    req,            \* the --build-type argument of that command
    effType,        \* handle_run's effective_build_type (NotSet when not computed)
    ctxType,        \* context.build_type ("" while no context is built)
    ctxTemplate,    \* context.template_name
    generator,      \* the generator chosen by build_project's probe
    steps,          \* external steps invoked by this command, in order
    result,         \* what the handler returned ("running" while it runs)
    buildRes,       \* what build_project returned ("none" before it returns)
    findRes,        \* what find_executable returned ("none" before it returns)
    execPath,       \* the path find_executable returned
    cacheAtEntry,   \* CMakeCache.txt existed when build_project was entered
    dirAtStart,     \* jumake_build/ existed when the command started
    markerAtStart,  \* .jumake when the command started
    afterBuild,     \* the build type of the build command that succeeded just
                    \* before this command ("" when none did)
    afterConfigures, \* the number of configure steps that build command invoked
    srcFiles,       \* names of the files in src/ other than CMakeLists.txt
    cmakelists,     \* src/CMakeLists.txt: [st, bytes]
    addCur,         \* the add_class call made last: [kind, name, res, wrote]
    addPrev,        \* how the call before it ended, when that call had the same
                    \* element type and name ("none" otherwise)
    cmakelistsAtStart, \* src/CMakeLists.txt before the first add_class call
    addedCpp,       \* the implementation file names of the calls that returned
                    \* Ok, in the order of the calls
    projectPath,    \* what is at the new command's context.project_path
    pathAtStart,    \* projectPath when the new command started
    newPc,          \* position of the running new command ("idle": none running)
    newTemplate,    \* its context.template_name ("None" for None)
    newSteps,       \* the calls create_project made after step 1, with results
    newRes,         \* what handle_new returned ("running" while it runs)
    findIn,         \* the last direct call of find_executable: what it was given
    findOut,        \* and what it returned
    cpusIn,         \* the last computation of the job count: num_cpus::get()
    jobsOut,        \* and the count computed
    ctxIn,          \* the last direct resolution of a context: command, cwd, CMakeLists
    ctxOut          \* and its result: [res, project_name]

buildVars == <<os, buildDir, cache, ccjson, jumake, pc, cmd, req, effType, ctxType,
               ctxTemplate, generator, steps, result, buildRes, findRes,
               execPath, cacheAtEntry, dirAtStart, markerAtStart,
               afterBuild, afterConfigures>>
addVars == <<srcFiles, cmakelists, addCur, addPrev, cmakelistsAtStart, addedCpp>>
newVars == <<projectPath, pathAtStart, newPc, newTemplate, newSteps, newRes>>
callVars == <<findIn, findOut, cpusIn, jobsOut, ctxIn, ctxOut>>
vars == <<buildVars, addVars, newVars, callVars>>

(***************************************************************************)
(* Bounds and input sets                                                   *)
(***************************************************************************)
MaxCpus == 5

\* --build-type arguments tried (clap passes any string through)
BuildTypeArgs == {"Debug", "Release", "RelWithDebInfo", "MinSizeRel",
                  "LastUsed", "debug"}

\* contents the user may leave in .jumake
MarkerTexts == {"Debug\n", ""}

Platforms == {"linux", "macos", "windows"}

Templates == {"GuiApplication", "AudioPlugin", "ConsoleApp"}

\* std::usize::MAX; TLC's integers are 32 bits wide, so its largest integer
\* stands for 2^64 - 1 (only 1 - 2 wraps, and only to this value)
UsizeMax == 2147483647

\* lines of the src/CMakeLists.txt the add command starts from
MaxLines == 3

\* element names tried
ElementNames == {"A"}

(***************************************************************************)
(* main.rs: pure helpers                                                   *)
(***************************************************************************)
ValidBuildTypes == {"Debug", "Release", "RelWithDebInfo", "MinSizeRel"}

\* a local that holds no value yet
NotSet == "<not set>"

validate_build_type_lastused(build_type) ==
    build_type \in ValidBuildTypes \cup {"LastUsed"}

\* validate_build_type: Ok(()) exactly for the four configuration names
validate_build_type(build_type) ==
    build_type \in {"Debug", "Release", "RelWithDebInfo", "MinSizeRel"}

\* .jumake as the file system holds it
Marker(st, txt) == [st |-> st, txt |-> txt]
MarkerAbsent == Marker("absent", "")
MarkerDenied == Marker("denied", "")
MarkerStates == {MarkerAbsent, MarkerDenied}
                \cup {Marker("file", t) : t \in MarkerTexts \cup ValidBuildTypes}

\* read_last_build_type: fs::read_to_string(..).ok(), every error becomes None
read_last_build_type(m) ==
    IF m.st = "file" THEN [some |-> TRUE, v |-> m.txt]
    ELSE [some |-> FALSE, v |-> ""]

effective_build_type_ignoring_marker(build_type, m) ==
    IF build_type = "LastUsed" THEN "Release" ELSE build_type

\* handle_run: let effective_build_type = ...
effective_build_type(build_type, m) ==
    IF build_type = "LastUsed"
    THEN (IF read_last_build_type(m).some
          THEN read_last_build_type(m).v ELSE "Release")
    ELSE build_type

save_build_type_newline(build_type) == Marker("file", build_type \o "\n")

\* save_build_type: fs::write(.jumake, &context.build_type), when it succeeds
save_build_type(build_type) == Marker("file", build_type)

\* main: the process's exit status for what the handler returned.  An Err is
\* printed with eprintln! and main returns normally; only a panic ends the
\* process with a failure status
main_exit_status(handler_result) ==
    IF handler_result = "panic" THEN "nonzero" ELSE "zero"

\* what std::env::current_dir() gives: an error ("gone"), the root directory,
\* which has no file_name ("root"), or a directory named DirName ("named")
Cwds == {"gone", "root", "named"}
DirName == "p"

\* the root CMakeLists.txt as extract_project_name sees it: unreadable, without
\* a project( line, or with project(<name> ..)
CMakeProjects == {"ioerr", "none", "p", "q"}

ContextOf(res, project_name) == [res |-> res, project_name |-> project_name]

\* current_context: current_dir()?, then file_name().unwrap()
current_context(cwd) ==
    IF cwd = "gone" THEN ContextOf("Io", "")
    ELSE IF cwd = "root" THEN ContextOf("panic", "")
    ELSE ContextOf("Ok", DirName)

\* current_context_with_build: current_dir()?, then file_name().unwrap()
current_context_with_build(cwd) ==
    IF cwd = "gone" THEN ContextOf("Io", "")
    ELSE IF cwd = "root" THEN ContextOf("panic", "")
    ELSE ContextOf("Ok", DirName)

\* extract_project_name: the first word inside the first project( .. ) line
extract_project_name(cmake) ==
    IF cmake = "ioerr" THEN ContextOf("Io", "")
    ELSE IF cmake = "none" THEN ContextOf("ProjectNameNotFound", "")
    ELSE ContextOf("Ok", cmake)

\* handle_run, lines 137 and 147-153: the context's project_name
handle_run_context(cwd, cmake) ==
    IF cwd = "gone" THEN ContextOf("Io", "") ELSE extract_project_name(cmake)

(***************************************************************************)
(* build.rs: pure helpers                                                  *)
(***************************************************************************)
NeedsConfigure_Always == TRUE

NeedsConfigure_when_type_changes ==
    ~cache \/ (jumake.st = "file" /\ jumake.txt # ctxType)

\* build_project: if !cmake_cache.exists()
NeedsConfigure == ~cache

\* one invocation of an external tool
Step(op, bt, jobs, exit) == [op |-> op, bt |-> bt, jobs |-> jobs, exit |-> exit]

\* num_cpus::get() - 2 on usize: the outcomes the two build profiles give
\* (overflow checks on: panic; off: wrap around)
SubTwo(n) ==
    IF n >= 2 THEN {[panic |-> FALSE, v |-> n - 2]}
    ELSE {[panic |-> TRUE, v |-> 0],
          [panic |-> FALSE, v |-> UsizeMax - (1 - n)]}

Max(a, b) == IF a >= b THEN a ELSE b

\* let num_cpus = std::cmp::max(num_cpus::get() - 2, 2)
JobCounts(n) ==
    {[panic |-> s.panic, v |-> IF s.panic THEN 0 ELSE Max(s.v, 2)] : s \in SubTwo(n)}

run_project_next_ignoring_error(res) == "find"

\* run_project: build_project(context)?; then find_executable
run_project_next(res) == IF res = "Ok" THEN "find" ELSE "idle"

\* handle_build: build_project(&context)?; then save_build_type
handle_build_next(res) == IF res = "Ok" THEN "save" ELSE "idle"

\* candidate paths the search prints, as token sequences: a build-type name
\* and the bundle suffix are one token each
CandidatePaths == {
    <<"/p/jumake_build/", "Debug", "/Foo">>,
    <<"/p/jumake_build/", "Release", "/Foo">>,
    <<"/p/jumake_build/old/", "Release", "/Foo">>,
    <<"/p/jumake_build/Foo_artefacts/", "MinSizeRel", "/Foo", ".app", "/Contents/MacOS/Foo">>,
    <<"/p/jumake_build/Foo_artefacts/", "RelWithDebInfo", "/Standalone/Foo">> }

CandidateLists ==
    {<<>>} \cup {<<p>> : p \in CandidatePaths}
           \cup {<<p, q>> : p \in CandidatePaths, q \in CandidatePaths}

\* path.contains(&context.build_type)
Contains(path, bt) == \E i \in 1..Len(path) : path[i] = bt

FirstMatch_last(paths, bt) ==
    IF \E i \in 1..Len(paths) : Contains(paths[i], bt)
    THEN CHOOSE i \in 1..Len(paths) :
            /\ Contains(paths[i], bt)
            /\ \A j \in (i + 1)..Len(paths) : ~Contains(paths[j], bt)
    ELSE 0

\* paths.into_iter().find(|path| path.contains(..)): index of the first, 0 if none
FirstMatch(paths, bt) ==
    IF \E i \in 1..Len(paths) : Contains(paths[i], bt)
    THEN CHOOSE i \in 1..Len(paths) :
            /\ Contains(paths[i], bt)
            /\ \A j \in 1..(i - 1) : ~Contains(paths[j], bt)
    ELSE 0

\* executable_path.split(".app").next(): the part before the first ".app"
BeforeApp(path) ==
    IF \E i \in 1..Len(path) : path[i] = ".app"
    THEN SubSeq(path, 1, (CHOOSE i \in 1..Len(path) :
                            /\ path[i] = ".app"
                            /\ \A j \in 1..(i - 1) : path[j] # ".app") - 1)
    ELSE path

\* find_executable's final normalisation
Normalise(path, target) ==
    IF target = "macos" THEN Append(BeforeApp(path), ".app") ELSE path

\* find_executable: its result and the path it returns, given the exit of the
\* search command and the paths it printed
find_executable(target, build_type, outcome, paths) ==
    LET i == FirstMatch(paths, build_type)
        res == CASE outcome = "spawn_error" -> "Io"
                 [] outcome = "nonzero" -> "ExecutableNotFound"
                 [] outcome = "bad_utf8" -> "Utf8"
                 [] outcome = "success" ->
                      (IF i = 0 THEN "ExecutableNotFound" ELSE "Ok")
    IN [res |-> res,
        path |-> IF res = "Ok" THEN Normalise(paths[i], target) ELSE <<>>]

(***************************************************************************)
(* The build and run commands                                              *)
(***************************************************************************)
AddIdle == [kind |-> "", name |-> "", res |-> "none", wrote |-> FALSE]

\* a path with nothing at it
NoPath == [exists |-> FALSE, root |-> {}, srcDir |-> FALSE, src |-> {},
           repo |-> FALSE, commits |-> 0]

\* no direct call has been made
CallIdle ==
    /\ findIn = [target |-> "", build_type |-> "", outcome |-> "", paths |-> <<>>]
    /\ findOut = [res |-> "none", path |-> <<>>]
    /\ cpusIn = 0
    /\ jobsOut = [panic |-> FALSE, v |-> 0]
    /\ ctxIn = [command |-> "", cwd |-> "", cmake |-> ""]
    /\ ctxOut = [res |-> "none", project_name |-> ""]

\* no new command has run
NewIdle ==
    /\ projectPath = NoPath /\ pathAtStart = NoPath
    /\ newPc = "idle" /\ newTemplate = "None" /\ newSteps = <<>> /\ newRes = "none"

AddInitBuild ==
    /\ srcFiles = {}
    /\ cmakelists = [st |-> "absent", bytes |-> <<>>]
    /\ cmakelistsAtStart = cmakelists
    /\ addedCpp = <<>>
    /\ addCur = AddIdle
    /\ addPrev = "none"
    /\ NewIdle
    /\ CallIdle

InitBuild ==
    /\ os \in Platforms
    /\ buildDir = FALSE
    /\ cache = FALSE
    /\ ccjson = FALSE
    /\ jumake = MarkerAbsent
    /\ pc = "idle"
    /\ cmd = "none"
    /\ req = ""
    /\ effType = NotSet
    /\ ctxType = ""
    /\ ctxTemplate = "none"
    /\ generator = ""
    /\ steps = <<>>
    /\ result = "none"
    /\ buildRes = "none"
    /\ findRes = "none"
    /\ execPath = <<>>
    /\ cacheAtEntry = FALSE
    /\ dirAtStart = FALSE
    /\ markerAtStart = MarkerAbsent
    /\ afterBuild = ""
    /\ afterConfigures = 0
    /\ AddInitBuild

\* what every handler starts from: a fresh log, the previous command remembered
StartCommand(c, build_type) ==
    /\ cmd' = c
    /\ req' = build_type
    /\ generator' = ""
    /\ steps' = <<>>
    /\ buildRes' = "none"
    /\ findRes' = "none"
    /\ execPath' = <<>>
    /\ cacheAtEntry' = FALSE
    /\ dirAtStart' = buildDir
    /\ markerAtStart' = jumake
    /\ afterBuild' = (IF cmd = "build" /\ result = "Ok" THEN req ELSE "")
    /\ afterConfigures' = (IF cmd = "build" /\ result = "Ok"
                           THEN Cardinality({i \in 1..Len(steps) :
                                               steps[i].op = "configure"})
                           ELSE 0)

\* handle_build up to the call of build_project.  cwd: what
\* std::env::current_dir() gives ("gone": an error, "root": a path with no
\* file_name, "named": any other); tmpl: what determine_template_name reads
handle_build(build_type) ==
    /\ pc = "idle"
    /\ StartCommand("build", build_type)
    /\ effType' = NotSet
    /\ IF ~validate_build_type(build_type)
       THEN /\ pc' = "idle" /\ result' = "InvalidBuildType"
            /\ ctxType' = "" /\ ctxTemplate' = "none"
       ELSE \E cwd \in Cwds :
              IF current_context_with_build(cwd).res # "Ok"
              THEN /\ pc' = "idle" /\ result' = current_context_with_build(cwd).res
                   /\ ctxType' = "" /\ ctxTemplate' = "none"
              ELSE \E tmpl \in Templates :
                   /\ pc' = "build_project" /\ result' = "running"
                   /\ ctxType' = build_type /\ ctxTemplate' = tmpl
    /\ UNCHANGED <<os, buildDir, cache, ccjson, jumake, addVars, newVars, callVars>>

\* handle_run up to the call of run_project.  pn: what extract_project_name
\* finds in the root CMakeLists.txt
handle_run(build_type, cwd) ==
    /\ pc = "idle"
    /\ StartCommand("run", build_type)
    /\ IF cwd = "gone"
       THEN /\ pc' = "idle" /\ result' = "Io" /\ effType' = NotSet
            /\ ctxType' = "" /\ ctxTemplate' = "none"
       ELSE /\ effType' = effective_build_type(build_type, jumake)
            /\ IF ~validate_build_type(effType')
               THEN /\ pc' = "idle" /\ result' = "InvalidBuildType"
                    /\ ctxType' = "" /\ ctxTemplate' = "none"
               ELSE \E pn \in CMakeProjects :
                      IF handle_run_context(cwd, pn).res # "Ok"
                      THEN /\ pc' = "idle"
                           /\ result' = handle_run_context(cwd, pn).res
                           /\ ctxType' = "" /\ ctxTemplate' = "none"
                      ELSE \E tmpl \in Templates :
                           /\ pc' = "build_project" /\ result' = "running"
                           /\ ctxType' = effType' /\ ctxTemplate' = tmpl
    /\ UNCHANGED <<os, buildDir, cache, ccjson, jumake, addVars, newVars, callVars>>

\* build_project returns res to its caller, handle_build or run_project
BuildReturn(res) ==
    /\ buildRes' = res
    /\ generator' = ""
    /\ pc' = (IF cmd = "build" THEN handle_build_next(res) ELSE run_project_next(res))
    /\ result' = (IF pc' = "idle" THEN res ELSE "running")

\* build_project goes on to its next step
BuildGoesOn(next) ==
    /\ pc' = next
    /\ UNCHANGED <<buildRes, result>>

\* build_project, lines 30-45: create the build directory, probe for ninja,
\* test the cache marker
build_project_enter(mkdir_ok, ninja) ==
    /\ pc = "build_project"
    /\ IF ~buildDir /\ ~mkdir_ok
       THEN /\ BuildReturn("Io")
            /\ UNCHANGED <<buildDir, steps, cacheAtEntry>>
       ELSE /\ buildDir' = TRUE
            /\ steps' = Append(steps, Step("probe_ninja", "", 0, ""))
            /\ generator' = (IF ninja THEN "Ninja" ELSE "Unix Makefiles")
            /\ cacheAtEntry' = cache
            /\ BuildGoesOn(IF NeedsConfigure THEN "configure" ELSE "compile")
    /\ UNCHANGED <<os, cache, ccjson, jumake, cmd, req, effType, ctxType, ctxTemplate,
                   findRes, execPath, dirAtStart, markerAtStart, afterBuild, afterConfigures, addVars, newVars, callVars>>

\* build_project, lines 46-76: the configure step, given the generator and,
\* with ccache installed, the two compiler-launcher flags
build_project_configure(ccache_enabled, outcome, wrote_cache, wrote_json) ==
    /\ pc = "configure"
    /\ generator \in {"Ninja", "Unix Makefiles"}
    /\ steps' = Append(steps, Step("configure", ctxType, 0, outcome))
    /\ CASE outcome = "success" ->
                /\ cache' = TRUE
                /\ ccjson' = (ccjson \/ wrote_json)
                /\ generator' = generator
                /\ BuildGoesOn("compile")
         [] outcome = "nonzero" ->
                /\ cache' = (cache \/ wrote_cache)
                /\ ccjson' = ccjson
                /\ BuildReturn("CMakeConfigureFailed")
         [] outcome = "spawn_error" ->
                /\ UNCHANGED <<cache, ccjson>>
                /\ BuildReturn("Io")
    /\ UNCHANGED <<os, buildDir, jumake, cmd, req, effType, ctxType, ctxTemplate,
                   findRes, execPath, cacheAtEntry, dirAtStart,
                   markerAtStart, afterBuild, afterConfigures, addVars, newVars, callVars>>

\* build_project, lines 83-98: the job count and the compile step
build_project_compile(n, j, outcome) ==
    /\ pc = "compile"
    /\ j \in JobCounts(n)
    /\ IF j.panic
       THEN /\ pc' = "idle" /\ result' = "panic" /\ generator' = ""
            /\ UNCHANGED <<steps, buildRes>>
       ELSE /\ steps' = Append(steps, Step("compile", ctxType, j.v, outcome))
            /\ CASE outcome = "success" ->
                        /\ generator' = generator
                        /\ BuildGoesOn("copy")
                 [] outcome = "nonzero" -> BuildReturn("CMakeBuildFailed")
                 [] outcome = "spawn_error" -> BuildReturn("Io")
    /\ UNCHANGED <<os, buildDir, cache, ccjson, jumake, cmd, req, effType, ctxType,
                   ctxTemplate, findRes, execPath, cacheAtEntry,
                   dirAtStart, markerAtStart, afterBuild, afterConfigures, addVars, newVars, callVars>>

\* build_project, lines 100-112: copy compile_commands.json to the project root
build_project_copy(copy_ok) ==
    /\ pc = "copy"
    /\ IF os = "windows"
       THEN /\ BuildReturn("Ok")
            /\ UNCHANGED steps
       ELSE IF ccjson
       THEN /\ steps' = Append(steps, Step("copy", "", 0, IF copy_ok THEN "success" ELSE "io_error"))
            /\ BuildReturn(IF copy_ok THEN "Ok" ELSE "Io")
       ELSE /\ BuildReturn("CompileCommandsMissing")
            /\ UNCHANGED steps
    /\ UNCHANGED <<os, buildDir, cache, ccjson, jumake, cmd, req, effType, ctxType,
                   ctxTemplate, findRes, execPath, cacheAtEntry,
                   dirAtStart, markerAtStart, afterBuild, afterConfigures, addVars, newVars, callVars>>

\* handle_build, line 131: save_build_type(&context)?; a failed fs::write
\* leaves the file as it was or truncated
handle_build_save(write_ok, truncated) ==
    /\ pc = "save"
    /\ pc' = "idle"
    /\ IF write_ok
       THEN /\ jumake' = save_build_type(ctxType)
            /\ result' = "Ok"
       ELSE /\ jumake' = (IF truncated THEN Marker("file", "") ELSE jumake)
            /\ result' = "Io"
    /\ UNCHANGED <<os, buildDir, cache, ccjson, cmd, req, effType, ctxType, ctxTemplate,
                   generator, steps, buildRes, findRes, execPath, cacheAtEntry,
                   dirAtStart, markerAtStart, afterBuild, afterConfigures, addVars, newVars, callVars>>

\* run_project, line 122: find_executable.  outcome: how the search command
\* ended; paths: the lines it printed
run_project_find(outcome, paths) ==
    /\ pc = "find"
    /\ steps' = Append(steps, Step("search", ctxType, 0, outcome))
    /\ LET r == find_executable(os, ctxType, outcome, paths)
       IN /\ findRes' = r.res
          /\ execPath' = r.path
          /\ IF r.res = "Ok"
             THEN /\ pc' = "exec"
                  /\ result' = "running"
             ELSE /\ pc' = "idle"
                  /\ result' = r.res
    /\ UNCHANGED <<os, buildDir, cache, ccjson, jumake, cmd, req, effType, ctxType,
                   ctxTemplate, generator, buildRes, cacheAtEntry, dirAtStart,
                   markerAtStart, afterBuild, afterConfigures, addVars, newVars, callVars>>

\* run_project, lines 125-136: launch the artifact; only a failure to spawn it
\* is an error
run_project_exec(spawn_ok) ==
    /\ pc = "exec"
    /\ steps' = Append(steps,
                  Step(IF os = "macos" /\ ctxTemplate # "ConsoleApp" THEN "open" ELSE "exec",
                       ctxType, 0, IF spawn_ok THEN "success" ELSE "spawn_error"))
    /\ pc' = "idle"
    /\ result' = (IF spawn_ok THEN "Ok" ELSE "Io")
    /\ UNCHANGED <<os, buildDir, cache, ccjson, jumake, cmd, req, effType, ctxType,
                   ctxTemplate, generator, buildRes, findRes, execPath, cacheAtEntry,
                   dirAtStart, markerAtStart, afterBuild, afterConfigures, addVars, newVars, callVars>>

(***************************************************************************)
(* The user, between commands                                              *)
(***************************************************************************)
ForgetCommand ==
    /\ cmd' = "none" /\ req' = "" /\ effType' = NotSet /\ ctxType' = ""
    /\ ctxTemplate' = "none" /\ generator' = "" /\ steps' = <<>>
    /\ result' = "none" /\ buildRes' = "none" /\ findRes' = "none"
    /\ execPath' = <<>> /\ cacheAtEntry' = FALSE
    /\ dirAtStart' = buildDir' /\ markerAtStart' = jumake' /\ afterBuild' = "" /\ afterConfigures' = 0

\* rm -rf jumake_build
UserRemovesBuildDir ==
    /\ pc = "idle"
    /\ buildDir
    /\ buildDir' = FALSE /\ cache' = FALSE /\ ccjson' = FALSE
    /\ jumake' = jumake
    /\ ForgetCommand
    /\ UNCHANGED <<os, pc, addVars, newVars, callVars>>

\* the user edits, removes or locks .jumake
UserChangesMarker(m) ==
    /\ pc = "idle"
    /\ m # jumake
    /\ jumake' = m
    /\ UNCHANGED <<buildDir, cache, ccjson>>
    /\ ForgetCommand
    /\ UNCHANGED <<os, pc, addVars, newVars, callVars>>

Outcomes == {"success", "nonzero", "spawn_error"}

NextBuild ==
    \/ \E bt \in BuildTypeArgs : handle_build(bt)
    \/ \E bt \in BuildTypeArgs, cwd \in Cwds : handle_run(bt, cwd)
    \/ \E mkdir_ok \in BOOLEAN, ninja \in BOOLEAN : build_project_enter(mkdir_ok, ninja)
    \/ \E cc \in BOOLEAN, o \in Outcomes, wc \in BOOLEAN, wj \in BOOLEAN :
          build_project_configure(cc, o, wc, wj)
    \/ \E n \in 1..MaxCpus, o \in Outcomes :
          \E j \in JobCounts(n) : build_project_compile(n, j, o)
    \/ \E ok \in BOOLEAN : build_project_copy(ok)
    \/ \E ok \in BOOLEAN, tr \in BOOLEAN : handle_build_save(ok, tr)
    \/ \E o \in Outcomes \cup {"bad_utf8"}, paths \in CandidateLists :
          run_project_find(o, paths)
    \/ \E ok \in BOOLEAN : run_project_exec(ok)
    \/ UserRemovesBuildDir
    \/ \E m \in MarkerStates : UserChangesMarker(m)

SpecBuild == InitBuild /\ [][NextBuild]_vars

(***************************************************************************)
(* create_files.rs: add_class and update_cmakelists.  A file is the        *)
(* sequence of its characters; the two fixed texts the code looks for and  *)
(* a file name are one character each.                                     *)
(***************************************************************************)
TS == "target_sources(${PROJECT_NAME}"
PRIV == "PRIVATE"
SP == " "
LF == "\n"
CR == "\r"
Whitespace == {" ", "\t", "\r", "\n"}

File(bytes) == [st |-> "file", bytes |-> bytes]
NoFile == [st |-> "absent", bytes |-> <<>>]

\* position of the first LF of b, 0 if it has none
FirstLF(b) ==
    IF \E i \in 1..Len(b) : b[i] = LF
    THEN CHOOSE i \in 1..Len(b) : b[i] = LF /\ \A j \in 1..(i - 1) : b[j] # LF
    ELSE 0

\* BufRead::lines: each line up to its LF, without the LF and without one CR
\* before it; what follows the last LF is a line when it is not empty
RECURSIVE ReadLines(_)
ReadLines(b) ==
    IF b = <<>> THEN <<>>
    ELSE LET k == FirstLF(b)
         IN IF k = 0 THEN <<b>>
            ELSE LET l == SubSeq(b, 1, k - 1)
                     line == IF l # <<>> /\ l[Len(l)] = CR
                             THEN SubSeq(l, 1, Len(l) - 1) ELSE l
                 IN <<line>> \o ReadLines(SubSeq(b, k + 1, Len(b)))

\* new_lines.join("\n")
RECURSIVE Join(_)
Join(lines) ==
    IF lines = <<>> THEN <<>>
    ELSE IF Len(lines) = 1 THEN lines[1]
    ELSE lines[1] \o <<LF>> \o Join(Tail(lines))

\* line.chars().take_while(|c| c.is_whitespace()).count()
RECURSIVE LeadingWhitespace(_)
LeadingWhitespace(line) ==
    IF line # <<>> /\ line[1] \in Whitespace
    THEN 1 + LeadingWhitespace(Tail(line)) ELSE 0

\* line.trim_start().starts_with(text)
TrimmedStartsWith(line, text) ==
    LET n == LeadingWhitespace(line)
    IN n < Len(line) /\ line[n + 1] = text

Spaces(n) == [i \in 1..n |-> SP]

NewCppLine_fixed_indent(line, cpp_file_name) ==
    Spaces(4) \o <<cpp_file_name>>

\* format!("{:indent$}{}", "", cpp_file_name, indent = indentation)
NewCppLine(line, cpp_file_name) ==
    Spaces(LeadingWhitespace(line) + 4) \o <<cpp_file_name>>

RECURSIVE ScanLines_private_anywhere(_, _, _, _)
ScanLines_private_anywhere(lines, i, cpp_file_name, acc) ==
    IF i > Len(lines) THEN acc
    ELSE LET line == lines[i]
             pushed == Append(acc.new_lines, line)
             insert == TrimmedStartsWith(line, PRIV) /\ ~acc.added
         IN ScanLines_private_anywhere(lines, i + 1, cpp_file_name,
                [new_lines |-> IF insert
                               THEN Append(pushed, NewCppLine(line, cpp_file_name))
                               ELSE pushed,
                 found_target_sources |-> TRUE,
                 added |-> acc.added \/ insert])

\* update_cmakelists, lines 117-131: the loop over the lines, from line i on
RECURSIVE ScanLines(_, _, _, _)
ScanLines(lines, i, cpp_file_name, acc) ==
    IF i > Len(lines) THEN acc
    ELSE LET line == lines[i]
             pushed == Append(acc.new_lines, line)
             found == acc.found_target_sources \/ TrimmedStartsWith(line, TS)
             insert == found /\ TrimmedStartsWith(line, PRIV) /\ ~acc.added
         IN ScanLines(lines, i + 1, cpp_file_name,
                [new_lines |-> IF insert
                               THEN Append(pushed, NewCppLine(line, cpp_file_name))
                               ELSE pushed,
                 found_target_sources |-> found,
                 added |-> acc.added \/ insert])

\* update_cmakelists: the results it can give and the descriptor each leaves
\* (fs::write either writes the file, or fails having written nothing, or
\* fails having truncated the file)
update_cmakelists(file, cpp_file_name) ==
    IF file.st # "file" THEN {[res |-> "DescriptorOpenFailed", file |-> file]}
    ELSE LET scan == ScanLines(ReadLines(file.bytes), 1, cpp_file_name,
                        [new_lines |-> <<>>, found_target_sources |-> FALSE,
                         added |-> FALSE])
         IN IF ~scan.added THEN {[res |-> "MarkerNotFound", file |-> file]}
            ELSE {[res |-> "Ok", file |-> File(Join(scan.new_lines))],
                  [res |-> "DescriptorWriteFailed", file |-> file],
                  [res |-> "DescriptorWriteFailed", file |-> File(<<>>)]}

\* add_class, lines 50-58: the effective name
AdjustedName(element_type, element_name) ==
    IF element_type = "component" THEN element_name \o "Component" ELSE element_name

ElementExists_unadjusted(files, element_name, adjusted_name) ==
    (element_name \o ".h") \in files \/ (element_name \o ".cpp") \in files

\* add_class, line 66: header_path.exists() || cpp_path.exists()
ElementExists(files, element_name, adjusted_name) ==
    (adjusted_name \o ".h") \in files \/ (adjusted_name \o ".cpp") \in files

\* add_class: the results it can give, with src/ and the descriptor after
\* each (a failed fs::write of a new file leaves no file or an empty one)
add_class(element_type, element_name) ==
    LET adjusted_name == AdjustedName(element_type, element_name)
        header_file_name == adjusted_name \o ".h"
        cpp_file_name == adjusted_name \o ".cpp"
        same(res) == [res |-> res, files |-> srcFiles, desc |-> cmakelists]
    IN IF element_type \notin {"class", "component"} THEN {same("InvalidElementType")}
       ELSE IF ElementExists(srcFiles, element_name, adjusted_name)
       THEN {same("AlreadyExists")}
       ELSE {same("HeaderWriteFailed"),
             [res |-> "HeaderWriteFailed",
              files |-> srcFiles \cup {header_file_name}, desc |-> cmakelists],
             [res |-> "CppWriteFailed",
              files |-> srcFiles \cup {header_file_name}, desc |-> cmakelists],
             [res |-> "CppWriteFailed",
              files |-> srcFiles \cup {header_file_name, cpp_file_name},
              desc |-> cmakelists]}
            \cup {[res |-> u.res,
                   files |-> srcFiles \cup {header_file_name, cpp_file_name},
                   desc |-> u.file] : u \in update_cmakelists(cmakelists, cpp_file_name)}

\* one call of add_class and what it is remembered by
AddCall(element_type, element_name) ==
    \E r \in add_class(element_type, element_name) :
       /\ srcFiles' = r.files
       /\ cmakelists' = r.desc
       /\ addCur' = [kind |-> element_type, name |-> element_name, res |-> r.res,
                     wrote |-> (r.files # srcFiles \/ r.desc # cmakelists)]
       /\ addPrev' = (IF addCur.kind = element_type /\ addCur.name = element_name
                      THEN addCur.res ELSE "none")
       /\ addedCpp' = (IF r.res = "Ok"
                       THEN Append(addedCpp,
                                   AdjustedName(element_type, element_name) \o ".cpp")
                       ELSE addedCpp)
       /\ cmakelistsAtStart' = cmakelistsAtStart

\* handle_add: the add command; clap admits the two element types only.  cwd:
\* what std::env::current_dir() gives, as for handle_build
handle_add(element_type, element_name, cwd) ==
    /\ IF current_context(cwd).res # "Ok"
       THEN /\ addCur' = [kind |-> "", name |-> "", wrote |-> FALSE,
                          res |-> current_context(cwd).res]
            /\ addPrev' = "none"
            /\ UNCHANGED <<srcFiles, cmakelists, cmakelistsAtStart, addedCpp>>
       ELSE AddCall(IF element_type = "Class" THEN "class" ELSE "component",
                    element_name)
    /\ UNCHANGED <<buildVars, newVars, callVars>>

\* add_class called with any element type string
add_class_call(element_type, element_name) ==
    /\ AddCall(element_type, element_name)
    /\ UNCHANGED <<buildVars, newVars, callVars>>

(***************************************************************************)
(* The add command on a project whose src/CMakeLists.txt is any file of    *)
(* up to MaxLines lines                                                    *)
(***************************************************************************)
InitLines == { <<TS>>, <<PRIV>>, <<SP, PRIV>>, <<"A.cpp">>, <<"x", CR>>, <<>> }

LineSeqs == UNION {[1..n -> InitLines] : n \in 0..MaxLines}

\* every line followed by LF
RECURSIVE Terminated(_)
Terminated(lines) ==
    IF lines = <<>> THEN <<>> ELSE lines[1] \o <<LF>> \o Terminated(Tail(lines))

InitDescriptors ==
    {NoFile} \cup {File(Terminated(ls)) : ls \in LineSeqs}
             \cup {File(Join(ls)) : ls \in LineSeqs}

InitAdd ==
    /\ os = "linux"
    /\ buildDir = FALSE /\ cache = FALSE /\ ccjson = FALSE
    /\ jumake = MarkerAbsent
    /\ pc = "idle" /\ cmd = "none" /\ req = "" /\ effType = NotSet
    /\ ctxType = "" /\ ctxTemplate = "none" /\ generator = "" /\ steps = <<>>
    /\ result = "none" /\ buildRes = "none" /\ findRes = "none"
    /\ execPath = <<>> /\ cacheAtEntry = FALSE /\ dirAtStart = FALSE
    /\ markerAtStart = MarkerAbsent /\ afterBuild = "" /\ afterConfigures = 0
    /\ srcFiles = {}
    /\ cmakelists \in InitDescriptors
    /\ cmakelistsAtStart = cmakelists
    /\ addedCpp = <<>>
    /\ addCur = AddIdle
    /\ addPrev = "none"
    /\ NewIdle
    /\ CallIdle

NextAdd ==
    \/ \E t \in {"Class", "Component"}, name \in ElementNames,
          cwd \in Cwds : handle_add(t, name, cwd)
    \/ \E t \in {"class", "component", "struct"}, name \in ElementNames :
          add_class_call(t, name)

SpecAdd == InitAdd /\ [][NextAdd]_vars

(***************************************************************************)
(* The new command: handle_new (main.rs), create_project                   *)
(* (create_project.rs), create_cmakelists and create_source_files          *)
(* (create_files.rs), initialize_git_repo and create_initial_commit        *)
(* (initialize_git.rs)                                                     *)
(***************************************************************************)
\* --template arguments tried (clap passes any string through)
TemplateArgs == {"None", "GuiApplication", "AudioPlugin", "ConsoleApp", "Plugin"}

TemplateFiles_gui_for_all(template_name) ==
    <<"Main.cpp", "MainComponent.cpp", "MainComponent.h", "CMakeLists.txt">>

\* create_source_files, lines 20-37: the files of a template, in the order
\* they are written
TemplateFiles(template_name) ==
    CASE template_name = "GuiApplication" ->
            <<"Main.cpp", "MainComponent.cpp", "MainComponent.h", "CMakeLists.txt">>
      [] template_name = "AudioPlugin" ->
            <<"PluginProcessor.cpp", "PluginProcessor.h", "PluginEditor.cpp",
              "PluginEditor.h", "CMakeLists.txt">>
      [] template_name = "ConsoleApp" -> <<"Main.cpp", "CMakeLists.txt">>
      [] OTHER -> <<>>

\* create_source_files: the match arms that write files
KnownTemplate(template_name) ==
    template_name \in {"GuiApplication", "AudioPlugin", "ConsoleApp"}

\* create_source_files in a directory without src/: its result, whether src/
\* exists afterwards and the files in it.  fail_at: the write that fails (0:
\* none does); leftover: the failed write left its file behind
create_source_files(template_name, mkdir_ok, fail_at, leftover) ==
    LET files == TemplateFiles(template_name)
        names(n) == {files[i] : i \in 1..n}
    IN IF ~mkdir_ok THEN [res |-> "Io", srcDir |-> FALSE, src |-> {}]
       ELSE IF ~KnownTemplate(template_name)
       THEN [res |-> IF template_name = "None" THEN "NoTemplate" ELSE "UnknownTemplate",
             srcDir |-> TRUE, src |-> {}]
       ELSE IF fail_at \in 1..Len(files)
       THEN [res |-> "Io", srcDir |-> TRUE,
             src |-> names(fail_at - 1) \cup (IF leftover THEN {files[fail_at]} ELSE {})]
       ELSE [res |-> "Ok", srcDir |-> TRUE, src |-> names(Len(files))]

project_path_exists_never(p) == FALSE

\* create_project, line 24: context.project_path.exists()
project_path_exists(p) == p.exists

post_creation_next_aborting(res, next) == IF res = "Ok" THEN next ELSE "idle"

\* create_project, lines 41-59: if let Err(e) = step { warn!(..) }, then the
\* next statement
post_creation_next(res, next) == next

\* a post-creation step returns res
PostCreation(op, res, next) ==
    /\ newSteps' = Append(newSteps, [op |-> op, res |-> res])
    /\ newPc' = post_creation_next(res, next)
    /\ newRes' = (IF newPc' = "idle" THEN "Ok" ELSE "running")

\* handle_new and create_project up to step 1.  same_path: the path is the one
\* the command before it used; selection: what select_template gives when no
\* --template is passed
handle_new(path_given, cwd_ok, template, selection, same_path, mkdir_ok) ==
    /\ newPc = "idle"
    /\ LET target == IF same_path THEN projectPath ELSE NoPath
       IN /\ pathAtStart' = target
          /\ newSteps' = <<>>
          /\ IF ~path_given /\ ~cwd_ok
             THEN /\ newRes' = "panic" /\ newTemplate' = "None"
                  /\ projectPath' = target /\ newPc' = "idle"
             ELSE /\ newTemplate' = (IF template # "None" THEN template ELSE selection)
                  /\ IF project_path_exists(target)
                     THEN /\ newRes' = "Config"
                          /\ projectPath' = target /\ newPc' = "idle"
                     ELSE IF ~mkdir_ok
                     THEN /\ newRes' = "Io"
                          /\ projectPath' = target /\ newPc' = "idle"
                     ELSE /\ newRes' = "running"
                          /\ projectPath' = [target EXCEPT !.exists = TRUE]
                          /\ newPc' = "create_cmakelists"
    /\ UNCHANGED <<buildVars, addVars, callVars>>

\* create_project step 2: create_cmakelists
create_project_cmakelists(write_ok) ==
    /\ newPc = "create_cmakelists"
    /\ projectPath' = (IF write_ok
                       THEN [projectPath EXCEPT !.root = @ \cup {"CMakeLists.txt"}]
                       ELSE projectPath)
    /\ PostCreation("create_cmakelists", IF write_ok THEN "Ok" ELSE "Io",
                    "create_source_files")
    /\ UNCHANGED <<pathAtStart, newTemplate, buildVars, addVars, callVars>>

\* create_project step 3: create_source_files
create_project_source_files(mkdir_ok, fail_at, leftover) ==
    /\ newPc = "create_source_files"
    /\ LET r == create_source_files(newTemplate, mkdir_ok, fail_at, leftover)
       IN /\ projectPath' = [projectPath EXCEPT !.srcDir = r.srcDir, !.src = r.src]
          /\ PostCreation("create_source_files", r.res, "initialize_git_repo")
    /\ UNCHANGED <<pathAtStart, newTemplate, buildVars, addVars, callVars>>

\* initialize_git_repo: Repository::init, append_gitignore, add_all,
\* add_juce_submodule; each can fail and leaves what the ones before it made
GitOutcomes == {"Ok", "InitFailed", "GitignoreFailed", "SubmoduleFailed"}

\* create_project step 4: initialize_git_repo
create_project_git_repo(outcome) ==
    /\ newPc = "initialize_git_repo"
    /\ projectPath' =
          [projectPath EXCEPT
             !.repo = (outcome # "InitFailed"),
             !.root = @ \cup (IF outcome \in {"Ok", "SubmoduleFailed"}
                              THEN {".gitignore"} ELSE {})
                        \cup (IF outcome = "Ok" THEN {"modules"} ELSE {})]
    /\ PostCreation("initialize_git_repo",
                    CASE outcome = "Ok" -> "Ok"
                      [] outcome = "GitignoreFailed" -> "Io"
                      [] outcome = "SubmoduleFailed" -> "Config"
                      [] OTHER -> "Git",
                    "create_initial_commit")
    /\ UNCHANGED <<pathAtStart, newTemplate, buildVars, addVars, callVars>>

\* create_project step 5: create_initial_commit; Repository::open fails
\* where step 4 made no repository
create_project_initial_commit(commit_ok) ==
    /\ newPc = "create_initial_commit"
    /\ LET ok == projectPath.repo /\ commit_ok
       IN /\ projectPath' = (IF ok THEN [projectPath EXCEPT !.commits = @ + 1]
                             ELSE projectPath)
          /\ PostCreation("create_initial_commit", IF ok THEN "Ok" ELSE "Git", "idle")
    /\ UNCHANGED <<pathAtStart, newTemplate, buildVars, addVars, callVars>>

\* what may be at the path before the first new command
InitPaths ==
    {NoPath}
    \cup {[exists |-> TRUE, root |-> r, srcDir |-> d, src |-> {}, repo |-> g,
           commits |-> IF g THEN 1 ELSE 0] :
             r \in {{}, {"CMakeLists.txt"}}, d \in BOOLEAN, g \in BOOLEAN}

InitNew ==
    /\ os = "linux"
    /\ buildDir = FALSE /\ cache = FALSE /\ ccjson = FALSE
    /\ jumake = MarkerAbsent
    /\ pc = "idle" /\ cmd = "none" /\ req = "" /\ effType = NotSet
    /\ ctxType = "" /\ ctxTemplate = "none" /\ generator = "" /\ steps = <<>>
    /\ result = "none" /\ buildRes = "none" /\ findRes = "none"
    /\ execPath = <<>> /\ cacheAtEntry = FALSE /\ dirAtStart = FALSE
    /\ markerAtStart = MarkerAbsent /\ afterBuild = "" /\ afterConfigures = 0
    /\ srcFiles = {} /\ cmakelists = NoFile /\ addCur = AddIdle /\ addPrev = "none"
    /\ cmakelistsAtStart = NoFile /\ addedCpp = <<>>
    /\ projectPath \in InitPaths
    /\ pathAtStart = projectPath
    /\ newPc = "idle" /\ newTemplate = "None" /\ newSteps = <<>> /\ newRes = "none"
    /\ CallIdle

NextNew ==
    \/ \E path_given \in BOOLEAN, cwd_ok \in BOOLEAN, template \in TemplateArgs,
          selection \in Templates \cup {"None"}, same_path \in BOOLEAN,
          mkdir_ok \in BOOLEAN :
          handle_new(path_given, cwd_ok, template, selection, same_path, mkdir_ok)
    \/ \E write_ok \in BOOLEAN : create_project_cmakelists(write_ok)
    \/ \E mkdir_ok \in BOOLEAN, leftover \in BOOLEAN :
          \E fail_at \in 0..Len(TemplateFiles(newTemplate)) :
             create_project_source_files(mkdir_ok, fail_at, leftover)
    \/ \E outcome \in GitOutcomes : create_project_git_repo(outcome)
    \/ \E commit_ok \in BOOLEAN : create_project_initial_commit(commit_ok)

SpecNew == InitNew /\ [][NextNew]_vars

(***************************************************************************)
(* find_executable, build_project's job count and the resolution of a      *)
(* context, each evaluated on its own, once, with inputs of every kind     *)
(***************************************************************************)
\* the call of find_executable a process makes, for a context with this
\* build type, on a binary compiled for target
find_executable_call(target, build_type, outcome, paths) ==
    /\ CallIdle
    /\ findIn' = [target |-> target, build_type |-> build_type,
                  outcome |-> outcome, paths |-> paths]
    /\ findOut' = find_executable(target, build_type, outcome, paths)
    /\ UNCHANGED <<cpusIn, jobsOut, ctxIn, ctxOut, buildVars, addVars, newVars>>

\* build_project, line 83, as a process evaluates it on a machine with n CPUs
build_project_num_cpus(n, j) ==
    /\ CallIdle
    /\ j \in JobCounts(n)
    /\ cpusIn' = n
    /\ jobsOut' = j
    /\ UNCHANGED <<findIn, findOut, ctxIn, ctxOut, buildVars, addVars, newVars>>

\* the context a command resolves, in a working directory of kind cwd with a
\* root CMakeLists.txt of kind cmake
resolve_context(command, cwd, cmake) ==
    /\ CallIdle
    /\ ctxIn' = [command |-> command, cwd |-> cwd, cmake |-> cmake]
    /\ ctxOut' = CASE command = "add" -> current_context(cwd)
                   [] command = "build" -> current_context_with_build(cwd)
                   [] command = "run" -> handle_run_context(cwd, cmake)
    /\ UNCHANGED <<findIn, findOut, cpusIn, jobsOut, buildVars, addVars, newVars>>

InitCalls ==
    /\ os = "linux"
    /\ buildDir = FALSE /\ cache = FALSE /\ ccjson = FALSE
    /\ jumake = MarkerAbsent
    /\ pc = "idle" /\ cmd = "none" /\ req = "" /\ effType = NotSet
    /\ ctxType = "" /\ ctxTemplate = "none" /\ generator = "" /\ steps = <<>>
    /\ result = "none" /\ buildRes = "none" /\ findRes = "none"
    /\ execPath = <<>> /\ cacheAtEntry = FALSE /\ dirAtStart = FALSE
    /\ markerAtStart = MarkerAbsent /\ afterBuild = "" /\ afterConfigures = 0
    /\ srcFiles = {} /\ cmakelists = NoFile /\ addCur = AddIdle /\ addPrev = "none"
    /\ cmakelistsAtStart = NoFile /\ addedCpp = <<>>
    /\ NewIdle
    /\ CallIdle

NextCalls ==
    \/ \E target \in Platforms, build_type \in ValidBuildTypes,
          outcome \in Outcomes \cup {"bad_utf8"}, paths \in CandidateLists :
          find_executable_call(target, build_type, outcome, paths)
    \/ \E n \in 1..MaxCpus : \E j \in JobCounts(n) : build_project_num_cpus(n, j)
    \/ \E command \in {"add", "build", "run"}, cwd \in Cwds, cmake \in CMakeProjects :
          resolve_context(command, cwd, cmake)

SpecCalls == InitCalls /\ [][NextCalls]_vars

(***************************************************************************)
(* Properties of the build and run commands                                *)
(***************************************************************************)
Invoked(op) == \E i \in 1..Len(steps) : steps[i].op = op
Count(op) == Cardinality({i \in 1..Len(steps) : steps[i].op = op})
Launched == Invoked("exec") \/ Invoked("open")
\* every step named a comes before every step named b
Before(a, b) ==
    \A i, k \in 1..Len(steps) : (steps[i].op = a /\ steps[k].op = b) => i < k
Finished == pc = "idle" /\ cmd # "none"
Entered == Invoked("probe_ninja")

\* C1: a build_project call entered with CMakeCache.txt present never invokes
\* the configure step, whatever the build type and the probes' answers.
C1_NoConfigureWhenCached == cacheAtEntry => ~Invoked("configure")

C1_Witness ==
    /\ cacheAtEntry /\ cmd = "build" /\ ctxType = "Debug"
    /\ buildRes = "Ok" /\ Invoked("compile")

C2_OrderAndAbort ==
    /\ Count("configure") <= 1 /\ Count("compile") <= 1 /\ Count("copy") <= 1
    /\ Before("configure", "compile") /\ Before("compile", "copy")
    /\ Invoked("configure") => ~cacheAtEntry
    /\ \A i \in 1..Len(steps) :
          /\ (steps[i].op = "configure" /\ steps[i].exit = "nonzero")
                => (buildRes = "CMakeConfigureFailed" /\ ~Invoked("compile"))
          /\ (steps[i].op = "compile" /\ steps[i].exit = "nonzero")
                => (buildRes = "CMakeBuildFailed" /\ ~Invoked("copy"))

C2_CompileAlwaysRuns ==
    (/\ Finished
     /\ \/ Entered /\ cacheAtEntry
        \/ \E i \in 1..Len(steps) :
              steps[i].op = "configure" /\ steps[i].exit = "success")
    => Invoked("compile")

\* C2: within one build_project call: configure (only without the cache
\* marker), compile, copy, in that order, each at most once; a non-zero
\* configure gives CMakeConfigureFailed and no compile; a non-zero compile gives
\* CMakeBuildFailed and no copy; once configure succeeded or was skipped, the
\* compile step is invoked.
C2_StepsOfBuild == C2_OrderAndAbort /\ C2_CompileAlwaysRuns

\* C3: run_project launches the artifact only after build_project returned
\* Ok and find_executable returned a path in the same call; a failed build or
\* search is returned as the error and nothing is launched.
C3_RunBuildsFirst ==
    cmd = "run" =>
      /\ Launched => (/\ buildRes = "Ok" /\ findRes = "Ok"
                      /\ Invoked("compile") /\ Invoked("search")
                      /\ Before("compile", "search")
                      /\ Before("search", "exec") /\ Before("search", "open"))
      /\ Invoked("search") => buildRes = "Ok"
      /\ buildRes \notin {"none", "Ok"}
            => (pc = "idle" /\ result = buildRes /\ ~Launched)
      /\ findRes \notin {"none", "Ok"}
            => (pc = "idle" /\ result = findRes /\ ~Launched)

C3_Witness == cmd = "run" /\ Launched /\ pc = "idle" /\ result = "Ok"

\* C4 as claimed: after a build command whose build_project call succeeded,
\* .jumake holds exactly the requested build type; when validation or
\* build_project failed, .jumake is as it was before the command.
C4_MarkerAfterBuildProject ==
    (cmd = "build" /\ pc = "idle") =>
      /\ buildRes = "Ok" => jumake = Marker("file", req)
      /\ (result = "InvalidBuildType" \/ buildRes \notin {"none", "Ok"})
            => jumake = markerAtStart

\* C4 as amended: after a build command that returned Ok (build_project and
\* the write of .jumake both succeeded), .jumake holds exactly the requested
\* build type; when the write failed the command returns the I/O error and
\* .jumake is as it was or empty; when validation or build_project failed,
\* .jumake is as it was before the command.
C4_MarkerAfterBuild ==
    (cmd = "build" /\ pc = "idle") =>
      /\ result = "Ok" => (buildRes = "Ok" /\ jumake = Marker("file", req))
      /\ (buildRes = "Ok" /\ result # "Ok")
            => (result = "Io" /\ jumake \in {markerAtStart, Marker("file", "")})
      /\ (result = "InvalidBuildType" \/ buildRes \notin {"none", "Ok"})
            => jumake = markerAtStart

C4_Witness ==
    /\ cmd = "build" /\ pc = "idle" /\ result = "Ok" /\ req = "Debug"
    /\ markerAtStart = Marker("file", "Release") /\ jumake = Marker("file", "Debug")

\* C5: a run command started without jumake_build/ configures, then compiles,
\* then launches the artifact, and once it has returned Ok .jumake holds the
\* effective build type the run used.
C5_RunFromScratch ==
    (cmd = "run" /\ pc = "idle" /\ result = "Ok" /\ ~dirAtStart) =>
      /\ Invoked("configure") /\ Invoked("compile") /\ Launched
      /\ Before("configure", "compile")
      /\ Before("compile", "exec") /\ Before("compile", "open")
      /\ jumake = Marker("file", effType)

\* C6: the run command's effective build type is, for LastUsed, what .jumake
\* holds when it can be read and Release when it cannot, and for any other
\* argument the argument itself; so a run with LastUsed made right after a
\* successful build with type T uses T.
C6_EffectiveBuildType ==
    (cmd = "run" /\ effType # NotSet) =>
      /\ req = "LastUsed" =>
            effType = (IF markerAtStart.st = "file" THEN markerAtStart.txt
                       ELSE "Release")
      /\ req # "LastUsed" => effType = req
      /\ ctxType \in {"", effType}
      /\ Invoked("compile") => ctxType = effType
      /\ (req = "LastUsed" /\ afterBuild # "") => effType = afterBuild

C6_Witness ==
    /\ cmd = "run" /\ req = "LastUsed" /\ afterBuild = "RelWithDebInfo"
    /\ effType = "RelWithDebInfo" /\ Invoked("compile")
    /\ steps[Len(steps)].bt = "RelWithDebInfo"

\* C7: validation accepts exactly Debug, Release, RelWithDebInfo and
\* MinSizeRel; the build command rejects everything else, LastUsed included;
\* every configure, compile, search and launch step runs with one of the four,
\* also when the value came from .jumake.
C7_BuildTypeValid ==
    /\ \A s \in BuildTypeArgs \cup MarkerTexts :
          validate_build_type(s) <=> s \in ValidBuildTypes
    /\ (cmd = "build" /\ req \notin ValidBuildTypes)
          => (pc = "idle" /\ result = "InvalidBuildType" /\ steps = <<>>)
    /\ (cmd = "run" /\ effType # NotSet /\ effType \notin ValidBuildTypes)
          => (pc = "idle" /\ result = "InvalidBuildType" /\ steps = <<>>)
    /\ pc # "idle" => ctxType \in ValidBuildTypes
    /\ \A i \in 1..Len(steps) :
          steps[i].op \in {"configure", "compile", "search", "exec", "open"}
             => (steps[i].bt \in ValidBuildTypes /\ steps[i].bt = ctxType)

C7_Witness ==
    /\ cmd = "run" /\ req = "LastUsed" /\ markerAtStart = Marker("file", "MinSizeRel")
    /\ Launched /\ steps[Len(steps)].bt = "MinSizeRel"

\* C8: resolving LastUsed, a read of .jumake that fails with another error
\* than not-found makes the command fail before any build step; only
\* not-found gives the default build type.
C8_ReadErrorPropagates ==
    (cmd = "run" /\ req = "LastUsed") =>
      /\ markerAtStart.st = "denied"
            => (pc = "idle" /\ result = "Io" /\ steps = <<>>)
      /\ (markerAtStart.st = "absent" /\ effType # NotSet) => effType = "Release"

(***************************************************************************)
(* Properties of the add command                                           *)
(***************************************************************************)
DescriptorStageResults ==
    {"DescriptorOpenFailed", "MarkerNotFound", "DescriptorWriteFailed"}

\* C9: a call of add_class that repeats the element type and name of the call
\* just before it, which succeeded or failed in its descriptor step, fails
\* with the already-exists error and writes nothing.
C9_SecondAddRefused ==
    addPrev \in {"Ok"} \cup DescriptorStageResults
        => (addCur.res = "AlreadyExists" /\ ~addCur.wrote)

C9_Witness ==
    /\ addPrev = "MarkerNotFound" /\ addCur.kind = "component"
    /\ addCur.res = "AlreadyExists"
    /\ {"AComponent.h", "AComponent.cpp"} \subseteq srcFiles

\* the first line that begins with PRIVATE at or after a line that begins with
\* target_sources(${PROJECT_NAME}; 0 if there is none
MarkerLine(lines) ==
    LET hit(i) == /\ TrimmedStartsWith(lines[i], PRIV)
                  /\ \E j \in 1..i : TrimmedStartsWith(lines[j], TS)
    IN IF \E i \in 1..Len(lines) : hit(i)
       THEN CHOOSE i \in 1..Len(lines) : hit(i) /\ \A j \in 1..(i - 1) : ~hit(j)
       ELSE 0

\* C10: a successful add leaves a descriptor whose lines are the lines it had
\* with exactly one line added: the implementation file's name, right after
\* the marker line and indented four columns deeper than it; every other
\* line is as it was, in its place.
C10_OneLineAdded ==
    [][(addCur' # addCur /\ addCur'.res = "Ok") =>
          LET old == ReadLines(cmakelists.bytes)
              new == ReadLines(cmakelists'.bytes)
              k == MarkerLine(old)
              cpp == AdjustedName(addCur'.kind, addCur'.name) \o ".cpp"
          IN /\ k > 0
             /\ new = SubSeq(old, 1, k)
                        \o <<Spaces(LeadingWhitespace(old[k]) + 4) \o <<cpp>>>>
                        \o SubSeq(old, k + 1, Len(old))]_vars

\* a line that begins with PRIVATE comes after a line that begins with
\* target_sources(${PROJECT_NAME}
PrivateAfterTargetSources(lines) ==
    \E i, k \in 1..Len(lines) :
       /\ i < k
       /\ TrimmedStartsWith(lines[i], TS)
       /\ TrimmedStartsWith(lines[k], PRIV)

\* C11: an add_class call that reaches the descriptor step on a readable
\* descriptor fails with the marker-not-found error exactly when no PRIVATE
\* line follows a target_sources line; the descriptor is then as it was and
\* the header and the implementation file written by the call are in src/.
C11_MarkerNotFound ==
    [][LET lines == ReadLines(cmakelists.bytes)
           name == AdjustedName(addCur'.kind, addCur'.name)
           missing == cmakelists.st = "file" /\ ~PrivateAfterTargetSources(lines)
       IN /\ (addCur'.res \in {"Ok"} \cup DescriptorStageResults /\ missing)
                => /\ addCur'.res = "MarkerNotFound"
                   /\ cmakelists' = cmakelists
                   /\ {name \o ".h", name \o ".cpp"} \subseteq srcFiles'
                   /\ srcFiles \subseteq srcFiles'
          /\ addCur'.res = "MarkerNotFound" => missing]_vars

C11_Witness ==
    /\ addCur.res = "MarkerNotFound" /\ addCur.kind = "class" /\ addCur.wrote
    /\ cmakelists = File(Terminated(<< <<PRIV>>, <<TS>> >>))
    /\ srcFiles = {"A.h", "A.cpp"}

(***************************************************************************)
(* Properties of the new command                                           *)
(***************************************************************************)
\* the result of the call of op made by the running or last new command
\* ("none" when it has not been made)
StepResult(op) ==
    IF \E i \in 1..Len(newSteps) : newSteps[i].op = op
    THEN newSteps[CHOOSE i \in 1..Len(newSteps) : newSteps[i].op = op].res
    ELSE "none"

\* the documented file set of a template kind
DocumentedFiles(kind) ==
    CASE kind = "GuiApplication" ->
            {"Main.cpp", "MainComponent.cpp", "MainComponent.h", "CMakeLists.txt"}
      [] kind = "AudioPlugin" ->
            {"PluginProcessor.cpp", "PluginProcessor.h", "PluginEditor.cpp",
             "PluginEditor.h", "CMakeLists.txt"}
      [] kind = "ConsoleApp" -> {"Main.cpp", "CMakeLists.txt"}
      [] OTHER -> {}

\* C12: create_source_files called in a directory without src/: for one of
\* the three template kinds it can fail only for an I/O failure, and when it
\* returns Ok src/ holds exactly the documented files of the kind (after an
\* I/O failure, only files of that set); for an absent or any other kind it
\* fails and src/ holds no file.
C12_SourceFileSet ==
    LET r == StepResult("create_source_files")
        documented == newTemplate \in {"GuiApplication", "AudioPlugin", "ConsoleApp"}
    IN r # "none" =>
         /\ r = "Ok" => (documented /\ projectPath.srcDir
                          /\ projectPath.src = DocumentedFiles(newTemplate))
         /\ documented => (r \in {"Ok", "Io"}
                            /\ projectPath.src \subseteq DocumentedFiles(newTemplate))
         /\ ~documented => (r \in {"NoTemplate", "UnknownTemplate", "Io"}
                             /\ projectPath.src = {})

C12_Witness ==
    /\ newTemplate = "AudioPlugin" /\ StepResult("create_source_files") = "Ok"
    /\ Cardinality(projectPath.src) = Cardinality(DocumentedFiles("AudioPlugin"))
    /\ "PluginEditor.h" \in projectPath.src

PostCreationOrder ==
    <<"create_cmakelists", "create_source_files", "initialize_git_repo",
      "create_initial_commit">>

\* the running or last new command created the project directory
DirectoryCreated == projectPath.exists /\ ~pathAtStart.exists

C14_ExistingPathUntouched ==
    (pathAtStart.exists /\ newRes \notin {"none", "panic"}) =>
      /\ newRes = "Config"
      /\ newPc = "idle"
      /\ newSteps = <<>>
      /\ projectPath = pathAtStart

\* the second new command on the path of a project the first one created
C14_Witness ==
    /\ newRes = "Config" /\ pathAtStart.exists
    /\ projectPath.commits = 1 /\ projectPath.src = DocumentedFiles("ConsoleApp")
    /\ newTemplate = "AudioPlugin"

(***************************************************************************)
(* Properties of find_executable and of the job count                      *)
(***************************************************************************)
\* the first of the paths given to the last call that contains its build type
\* (<<>> when none does)
Selected ==
    LET hit(i) == Contains(findIn.paths[i], findIn.build_type)
    IN IF \E i \in 1..Len(findIn.paths) : hit(i)
       THEN findIn.paths[CHOOSE i \in 1..Len(findIn.paths) :
                            hit(i) /\ \A j \in 1..(i - 1) : ~hit(j)]
       ELSE <<>>

\* find_executable fails with ExecutableNotFound when the search exits
\* non-zero or prints no path that contains the build type, and succeeds
\* when the search exits zero and prints one
FindFailsWhenNoneFound ==
    /\ findIn.outcome = "nonzero" => findOut.res = "ExecutableNotFound"
    /\ (findIn.outcome = "success" /\ Selected = <<>>)
          => findOut.res = "ExecutableNotFound"
    /\ (findIn.outcome = "success" /\ Selected # <<>>) => findOut.res = "Ok"
    /\ findOut.res = "Ok" => (findIn.outcome = "success" /\ Selected # <<>>)

C17_JobCount ==
    cpusIn >= 1 =>
      /\ ~jobsOut.panic
      /\ jobsOut.v = (IF cpusIn - 2 >= 2 THEN cpusIn - 2 ELSE 2)
      /\ jobsOut.v = (IF cpusIn <= 4 THEN 2 ELSE cpusIn - 2)
      /\ jobsOut.v <= (IF cpusIn >= 2 THEN cpusIn ELSE 2)

IsPrefix(a, b) == Len(a) <= Len(b) /\ a = SubSeq(b, 1, Len(a))

\* C19: on macOS the path find_executable returns is a prefix of the
\* selected path: the selected path up to and including its first .app when
\* it has one, and the selected path itself when it has none.
C19_BundlePrefix ==
    (findIn.target = "macos" /\ findOut.res = "Ok") =>
      /\ IsPrefix(findOut.path, Selected)
      /\ IF Contains(Selected, ".app")
         THEN /\ findOut.path[Len(findOut.path)] = ".app"
              /\ ~Contains(SubSeq(findOut.path, 1, Len(findOut.path) - 1), ".app")
         ELSE findOut.path = Selected

\* C18: the context a command resolves has the final segment of the working
\* directory as its project_name, for add, build and run alike, and in a
\* working directory without a final segment the resolution returns an
\* error instead of panicking.
C18_ProjectNameFromCwd ==
    ctxOut.res # "none" =>
      /\ ctxOut.res = "Ok" => (ctxIn.cwd = "named" /\ ctxOut.project_name = DirName)
      /\ ctxIn.cwd = "root" => ctxOut.res \notin {"Ok", "panic"}

\* C16: a command whose handler returned an error ends the process with a
\* non-zero exit status; the exit status is zero only when the handler
\* returned Ok.
C16_FailureExitsNonZero ==
    (Finished /\ result \notin {"none", "running"}) =>
      (main_exit_status(result) = "zero" <=> result = "Ok")

\* this command is a successful build with another type than the successful
\* build command just before it, entered with the cache marker in place
SecondBuildDone ==
    /\ cmd = "build" /\ pc = "idle" /\ result = "Ok"
    /\ afterBuild # "" /\ afterBuild # req
    /\ cacheAtEntry

\* what holds of the two commands whether or not the first one configured
SecondBuildCompilesOnly ==
    /\ ~Invoked("configure")
    /\ Count("compile") = 1
    /\ \A i \in 1..Len(steps) : steps[i].op = "compile" => steps[i].bt = req
    /\ jumake = Marker("file", req)

\* C20 as stated: over the two commands the configure step is invoked exactly
\* once, the second command only compiles, with its own type, and leaves
\* its type in the marker file.
C20_ConfiguredExactlyOnce ==
    SecondBuildDone =>
      /\ SecondBuildCompilesOnly
      /\ afterConfigures + Count("configure") = 1

\* C20 amended: the second command invokes no configure step, compiles once
\* with its own type and leaves its type in the marker file; over the two
\* commands configure is invoked at most once, by the first command with its
\* type, and exactly once when the first was entered without the cache
\* marker; any build command configures only when entered without it, with
\* the type it was asked for, and compiles with that type.
C20_NoReconfigure ==
    /\ SecondBuildDone =>
         /\ SecondBuildCompilesOnly
         /\ afterConfigures + Count("configure") <= 1
    /\ cmd = "build" =>
         /\ Invoked("configure") => ~cacheAtEntry
         /\ \A i \in 1..Len(steps) :
               steps[i].op \in {"configure", "compile"} => steps[i].bt = req
         /\ result = "Ok" =>
              /\ Count("compile") = 1
              /\ Count("configure") = (IF cacheAtEntry THEN 0 ELSE 1)

\* Debug configured and built, then Release built in the same build directory
C20_Witness ==
    /\ SecondBuildDone /\ afterBuild = "Debug" /\ req = "Release"
    /\ afterConfigures = 1 /\ ~Invoked("configure")
    /\ jumake = Marker("file", "Release")
    /\ \E i \in 1..Len(steps) : steps[i].op = "compile" /\ steps[i].bt = "Release"

\* the lines of the descriptor before the first call and now
OrigLines == ReadLines(cmakelistsAtStart.bytes)
CurLines == ReadLines(cmakelists.bytes)

\* the number of lines that name the file
Occurrences(lines, cpp_file_name) ==
    Cardinality({i \in 1..Len(lines) : Contains(lines[i], cpp_file_name)})

\* a is b with some of its elements left out
RECURSIVE IsSubsequence(_, _)
IsSubsequence(a, b) ==
    IF a = <<>> THEN TRUE
    ELSE IF b = <<>> THEN FALSE
    ELSE IF a[1] = b[1] THEN IsSubsequence(Tail(a), Tail(b))
    ELSE IsSubsequence(a, Tail(b))

\* the lines added by the successful calls are the Len(addedCpp) lines right
\* after the marker line of the original descriptor, the most recent first,
\* each indented four columns deeper than the marker line
AddedBlockAfterMarker ==
    LET n == Len(addedCpp)
        k == MarkerLine(OrigLines)
    IN /\ k > 0
       /\ Len(CurLines) >= k + n
       /\ CurLines[k] = OrigLines[k]
       /\ MarkerLine(CurLines) = k
       /\ \A i \in 1..n :
             CurLines[k + i] = Spaces(LeadingWhitespace(OrigLines[k]) + 4)
                                  \o <<addedCpp[n + 1 - i]>>

\* the lines of the descriptor now, without the added block
KeptLines ==
    LET n == Len(addedCpp)
        k == MarkerLine(OrigLines)
    IN SubSeq(CurLines, 1, k) \o SubSeq(CurLines, k + n + 1, Len(CurLines))

RECURSIVE TrailingEmpty(_)
TrailingEmpty(lines) ==
    IF lines # <<>> /\ lines[Len(lines)] = <<>>
    THEN 1 + TrailingEmpty(SubSeq(lines, 1, Len(lines) - 1))
    ELSE 0

====
